---- MODULE Spec2Model ----
(***************************************************************************)
(* gtw (git-tmux-workspace): the worker registry (.tmux-workers.json), the *)
(* tmux panes of window 0 of the project's session and the git worktree    *)
(* directories, with the commands of main.go that read and change them.    *)
(*                                                                         *)
(* The state is that of one project directory: its registry file, the      *)
(* session named after it and its worktree directories. add and init are   *)
(* also run from other working directories; the other commands are run     *)
(* from the project directory.                                             *)
(* A pane handle "%N" is the number N >= 1; the empty handle "" is NoPane. *)
(* A path "<dir>/<name>" is the record [dir |-> dir, name |-> name].       *)
(***************************************************************************)
EXTENDS Integers, Sequences, FiniteSets, TLC

\* ------------------------------------------------------------------ bounds
MaxPaneId == 3      \* handles the tmux server hands out in one behaviour
MaxKillPaneId == 4  \* the same, where nothing fails and only panes are killed
MaxPanes == 3       \* panes window 0 has room for (a split fails beyond it)
MaxWorkers == 2     \* records the registry holds
MaxEvents == 1      \* changes made by hand and failing commands in one behaviour

\* --------------------------------------------------------------- universes
Ids == {"a", "b"}                      \* the <worker-id> arguments tried
projectName == "proj"                  \* filepath.Base(cwd)
ProjectDir == "/home/u/proj"           \* os.Getwd()
OtherDir == "/mnt/u/proj"              \* the same directory reached by another path
InDefaultWorktree == "/home/u/proj/worktree/a"   \* the worktree of a, default prefix
InCustomWorktree == "/home/u/proj/work/a"        \* the worktree of a, prefix "work"
Sentinel == "GX3V2YXM92"               \* the title check and repair skip
HostTitle == "host"                    \* the title tmux gives a new pane
Titles == Ids \cup {projectName, HostTitle, Sentinel}
CustomCommand == "claude"
Commands == {CustomCommand}
CustomPrefix == "work"
hardcodedWorktreeDir == "worktree"     \* the literal "worktree" of check and repair
Prefixes == {hardcodedWorktreeDir, CustomPrefix}
NoPane == 0
Procs == {1, 2}                        \* two gtw processes run side by side
Absent == "<absent>"                   \* a key the JSON object does not hold

getDefaultInitCommand == "echo 'Hello, worker!'"
getDefaultWorktreePrefix == "worktree"

VARIABLES
  file,        \* .tmux-workers.json: [exists, workers, init_command, worktree_prefix, project_path]
  session,     \* whether the tmux session projectName exists
  panes,       \* the panes of window 0 in pane_index order: [id, title]
  active,      \* position of the active pane of window 0 (0: no session)
  nextPaneId,  \* the next handle of the tmux server
  worktrees,   \* the worktree directories on disk: paths [dir, name]
  out,         \* what the last command reported
  used,        \* the changes made by hand and the failing commands so far
  loaded,      \* per invocation under way: the command and the config it has loaded
  branches     \* the branches of the repository: [name, at], at the worktree that
               \* has the branch checked out

vars == <<file, session, panes, active, nextPaneId, worktrees, out, used, loaded, branches>>

\* ------------------------------------------------------------- sequences
RECURSIVE SeqToSet(_)
SeqToSet(s) == IF s = <<>> THEN {} ELSE {Head(s)} \cup SeqToSet(Tail(s))

InsertAfter(s, i, x) == SubSeq(s, 1, i) \o <<x>> \o SubSeq(s, i + 1, Len(s))

RemoveAt(s, i) == SubSeq(s, 1, i - 1) \o SubSeq(s, i + 1, Len(s))

\* The orders a Go map or a directory listing may be walked in.
RECURSIVE Orders(_)
Orders(S) ==
  IF S = {} THEN {<<>>}
  ELSE UNION {{<<x>> \o o : o \in Orders(S \ {x})} : x \in S}

\* ------------------------------------------------------------ registry
Path(dir, name) == [dir |-> dir, name |-> name]

\* The path with the directory name written out instead of the prefix.
WorktreePathLiteral(prefix, id) == Path("worktree", id)

\* filepath.Join("./"+config.WorktreePrefix, id)
WorktreePathOf(prefix, id) == Path(prefix, id)

Now == "now"                           \* time.Now()
ZeroTime == "0001-01-01T00:00:00Z"     \* the created_at of a record that has none

Worker(id, path, paneID, paneIndex) ==
  [ID |-> id, WorktreePath |-> path, TmuxSession |-> projectName,
   WindowIndex |-> 0, PaneID |-> paneID, PaneIndex |-> paneIndex,
   CreatedAt |-> Now, Status |-> "active"]

NoFile ==
  [exists |-> FALSE, workers |-> <<>>, init_command |-> Absent,
   worktree_prefix |-> Absent, project_path |-> Absent]

\* json.Unmarshal of an optional string key: an absent key leaves "".
FromJSON(v) == IF v = Absent THEN "" ELSE v

\* A string field without omitempty: the empty string is written as "".
KeepEmpty(v) == v

\* `json:",omitempty"`: an empty string writes no key.
OmitEmpty(v) == IF v = "" THEN Absent ELSE v

loadConfig(f) ==
  IF ~f.exists
  THEN [Workers |-> <<>>, InitCommand |-> getDefaultInitCommand,
        WorktreePrefix |-> getDefaultWorktreePrefix, ProjectPath |-> ""]
  ELSE [Workers |-> f.workers,
        InitCommand |-> IF FromJSON(f.init_command) = ""
                        THEN getDefaultInitCommand ELSE FromJSON(f.init_command),
        WorktreePrefix |-> IF FromJSON(f.worktree_prefix) = ""
                           THEN getDefaultWorktreePrefix
                           ELSE FromJSON(f.worktree_prefix),
        ProjectPath |-> FromJSON(f.project_path)]

saveConfig(config) ==
  [exists |-> TRUE, workers |-> config.Workers,
   init_command |-> OmitEmpty(config.InitCommand),
   worktree_prefix |-> OmitEmpty(config.WorktreePrefix),
   project_path |-> OmitEmpty(config.ProjectPath)]

WorkerIDs(workers) == {workers[i].ID : i \in 1..Len(workers)}

\* ---------------------------------------------------------------- tmux
PaneIds(ps) == {ps[i].id : i \in 1..Len(ps)}

\* tmux split-window -t <session>:0: the new pane follows the active pane, takes
\* the next handle and the default title, and becomes the active pane. It fails
\* when the window has no room for one more pane.
CanSplit(ps) == Len(ps) < MaxPanes

SplitPanes(ps, act, next) == InsertAfter(ps, act, [id |-> next, title |-> HostTitle])

\* tmux select-pane -t %id -T title
Retitle(ps, id, title) ==
  [i \in 1..Len(ps) |-> IF ps[i].id = id THEN [ps[i] EXCEPT !.title = title] ELSE ps[i]]

PanePos(ps, id) == CHOOSE i \in 1..Len(ps) : ps[i].id = id

\* The map without the skip of lines 732 and 845: every title is taken.
ListedAll(title) == TRUE

\* The title -> pane_id map both check and repair build from list-panes: the
\* project-root title and the sentinel are skipped, a later line overwrites.
Listed(title) == title # "" /\ title # projectName /\ title # Sentinel

paneMapOf(ps) ==
  [t \in {ps[i].title : i \in {j \in 1..Len(ps) : Listed(ps[j].title)}} |->
     ps[CHOOSE i \in 1..Len(ps) :
          /\ ps[i].title = t
          /\ \A j \in 1..Len(ps) : ps[j].title = t => j <= i].id]

\* tmux kill-pane: the panes and the active position that may follow the removal
\* of the pane at position i. When the active pane goes, tmux activates another
\* pane of the window (the last one used), which the model leaves open.
KillResults(ps, act, i) ==
  LET rest == RemoveAt(ps, i) IN
  IF rest = <<>> THEN {[panes |-> <<>>, active |-> 0]}
  ELSE IF i = act THEN {[panes |-> rest, active |-> k] : k \in 1..Len(rest)}
  ELSE {[panes |-> rest, active |-> IF i < act THEN act - 1 ELSE act]}

\* ------------------------------------------------------------- worktrees
\* git worktree add: refuses a path that already exists.
CanAddWorktree(wts, path) == path \notin wts

\* ---------------------------------------------------------------- output
Out(cmd, id, result, report, count) ==
  [cmd |-> cmd, id |-> id, result |-> result, report |-> report, count |-> count,
   cwd |-> ProjectDir]

EnvOut == Out("env", "", "", <<>>, 0)

Inconsistency(type, workerID) == [Type |-> type, WorkerID |-> workerID]

\* No invocation of the process is between its loadConfig and its saveConfig.
Idle == [cmd |-> "none", id |-> "", config |-> loadConfig(NoFile)]

Init ==
  /\ loaded = [p \in Procs |-> Idle]
  /\ branches = {}
  /\ file = NoFile
  /\ session = FALSE
  /\ panes = <<>>
  /\ active = 0
  /\ nextPaneId = 1
  /\ worktrees = {}
  /\ out = EnvOut
  /\ used = 0

\* ------------------------------------------------------ checkConsistency
\* A check and a repair that do not ask tmux for the session.
hasSessionAlways == TRUE

\* tmux has-session -t sessionName, as check and repair run it first.
hasSession == session

\* The loop of lines 739-757 with the two tests chained by else: a record with
\* no pane is not looked up on disk.
RECURSIVE WorkerFindingsElse(_, _, _)
WorkerFindingsElse(workers, paneMap, wts) ==
  IF workers = <<>> THEN <<>>
  ELSE LET worker == Head(workers) IN
       (IF worker.ID \notin DOMAIN paneMap
        THEN <<Inconsistency("MissingPane", worker.ID)>>
        ELSE IF worker.WorktreePath \notin wts
        THEN <<Inconsistency("MissingWorktree", worker.ID)>> ELSE <<>>)
       \o WorkerFindingsElse(Tail(workers), paneMap, wts)

\* The findings of the loop over config.Workers, in its order.
RECURSIVE WorkerFindings(_, _, _)
WorkerFindings(workers, paneMap, wts) ==
  IF workers = <<>> THEN <<>>
  ELSE LET worker == Head(workers) IN
       (IF worker.ID \notin DOMAIN paneMap
        THEN <<Inconsistency("MissingPane", worker.ID)>> ELSE <<>>)
       \o (IF worker.WorktreePath \notin wts
           THEN <<Inconsistency("MissingWorktree", worker.ID)>> ELSE <<>>)
       \o WorkerFindings(Tail(workers), paneMap, wts)

\* Readdir of the directory "worktree".
WorktreeDirEntries(wts) == {p.name : p \in {q \in wts : q.dir = hardcodedWorktreeDir}}

OrphanedPaneTitles(workers, paneMap) == DOMAIN paneMap \ WorkerIDs(workers)

OrphanedWorktreeNames(workers, wts) == WorktreeDirEntries(wts) \ WorkerIDs(workers)

TagAll(type, names) == [i \in 1..Len(names) |-> Inconsistency(type, names[i])]

\* The reports check may print: the map and the directory are walked in any order.
CheckReports(f, ps, wts) ==
  LET config == loadConfig(f)
      paneMap == paneMapOf(ps)
  IN {WorkerFindings(config.Workers, paneMap, wts)
        \o TagAll("OrphanedPane", po) \o TagAll("OrphanedWorktree", wo) :
      po \in Orders(OrphanedPaneTitles(config.Workers, paneMap)),
      wo \in Orders(OrphanedWorktreeNames(config.Workers, wts))}

\* A check that also drops the records it finds without a pane and writes the file.
checkConsistencyPruning(listOk) ==
  /\ out' = Out("check", "", IF ~session THEN "no_session" ELSE "done", <<>>, 0)
  /\ file' = IF session /\ file.exists
             THEN [file EXCEPT !.workers =
                     SelectSeq(@, LAMBDA w : w.ID \in DOMAIN paneMapOf(panes))]
             ELSE file
  /\ UNCHANGED <<session, panes, active, nextPaneId, worktrees>>

checkConsistency(listOk) ==
  /\ IF ~hasSession THEN out' = Out("check", "", "no_session", <<>>, 0)
     ELSE IF ~listOk THEN out' = Out("check", "", "list_error", <<>>, 0)
     ELSE \E report \in CheckReports(file, panes, worktrees) :
            out' = Out("check", "", "done", report, Len(report))
  /\ UNCHANGED <<file, session, panes, active, nextPaneId, worktrees>>

\* -------------------------------------------------------------- addWorker
\* What may go wrong in one run of addWorker: nothing, or one provider call.
\*   worktree:  both git worktree add attempts fail
\*   split_v:   the vertical split fails (the horizontal one is tried)
\*   split:     both splits fail
\*   rollback:  with split: the git worktree remove of the rollback fails too
\*   info:      display-message fails        title: select-pane -T fails
\*   save:      os.WriteFile fails           initcmd: send-keys fails
\* Where the branches of the repository are followed (SpecBranch), "worktree" is
\* not drawn but worked out from them, and "branch" says that only the first
\* attempt, git worktree add -b, fails.
AddFaults == {"none", "worktree", "split_v", "split", "rollback", "info", "title",
              "save", "initcmd"}

\* What addWorker reports when the fault's call is made and fails.
AddFaultResults(fault) ==
  CASE fault = "worktree" -> {"worktree_error"}
    [] fault = "split_v" -> {"created_after_hsplit"}
    [] fault = "split" -> {"split_error"}
    [] fault = "rollback" -> {"no_session_worktree_left", "split_error_worktree_left"}
    [] fault = "info" -> {"info_error"}
    [] fault = "title" -> {"created_untitled"}
    [] fault = "save" -> {"save_error"}
    [] fault = "initcmd" -> {"created_init_failed"}
    [] OTHER -> {}

AddCreated == {"created", "created_after_hsplit", "created_untitled", "created_init_failed",
               "created_on_branch"}

\* The path components of the working directories tried.
Components(cwd) ==
  CASE cwd = ProjectDir -> <<"home", "u", "proj">>
    [] cwd = OtherDir -> <<"mnt", "u", "proj">>
    [] cwd = InDefaultWorktree -> <<"home", "u", "proj", "worktree", "a">>
    [] cwd = InCustomWorktree -> <<"home", "u", "proj", "work", "a">>

\* filepath.Base(cwd): the session name
Base(cwd) == Components(cwd)[Len(Components(cwd))]

\* The worktree directory a working directory lies in, as a path from the
\* project directory; <<>> when it is the project directory itself.
WorktreeOfCwd(cwd) == SubSeq(Components(cwd), 4, Len(Components(cwd)))

\* strings.Contains(cwd, "/worktree/"): a component "worktree" with a component
\* after it.
InWorktreeDir(cwd) ==
  \E i \in 1..(Len(Components(cwd)) - 1) : Components(cwd)[i] = "worktree"

\* The registry file and the session a command run in cwd sees: the file is
\* looked up in cwd and the session is named Base(cwd). A worktree holds no
\* registry file and no session is named after a worker.
FileSeenFrom(cwd) == IF WorktreeOfCwd(cwd) = <<>> THEN file ELSE NoFile

SessionSeenFrom(cwd) == Base(cwd) = projectName /\ session

\* filepath.Join("./"+prefix, id) resolved from cwd: inside a worktree the new
\* directory is nested in it.
WorktreePathFrom(cwd, prefix, id) ==
  IF WorktreeOfCwd(cwd) = <<>> THEN WorktreePathOf(prefix, id)
  ELSE Path(WorktreeOfCwd(cwd)[1] \o "/" \o WorktreeOfCwd(cwd)[2] \o "/" \o prefix, id)

\* addWorker without the git worktree remove of lines 289, 297 and 333.
addWorkerNoRollback(wts, worktreePath, fault) == wts \cup {worktreePath}

\* The directories after the rollback of the worktree just added:
\* exec.Command("git", "worktree", "remove", worktreePath).Run(), whose result
\* is not looked at.
addWorkerRollback(wts, worktreePath, fault) ==
  IF fault = "rollback" THEN wts \cup {worktreePath} ELSE wts

\* addWorker without the test of lines 245-253: every directory will do.
addWorkerAnyDir(config, cwd) == FALSE

\* config.ProjectPath != "" && cwd != config.ProjectPath
addWorkerWrongDir(config, cwd) == config.ProjectPath # "" /\ cwd # config.ProjectPath

\* addWorker without the lookup of lines 256-261: no id is ever found.
addWorkerNeverExists(config, id) == FALSE

addWorkerAlreadyExists(config, id) == id \in WorkerIDs(config.Workers)

\* The pane the record is bound to: the active pane after the split
\* (display-message -t <session>:0 -p "#{pane_index}:#{pane_id}").
addWorkerNewPanePos(ps, act) == act

\* An addWorker that takes the record back when send-keys fails.
addWorkerSavedUnlessInitFails(config, worker, fault) ==
  IF fault = "initcmd" THEN file
  ELSE saveConfig([config EXCEPT !.Workers = Append(@, worker)])

\* The file after saveConfig(config) and executeInitCommand, in this order: the
\* send-keys of executeInitCommand comes after the write and its failure is a
\* warning.
addWorkerSaved(config, worker, fault) ==
  saveConfig([config EXCEPT !.Workers = Append(@, worker)])

\* addWorker with the config its loadConfig call returned.
addWorkerLoaded(config, id, cwd, fault) ==
  LET worktreePath == WorktreePathFrom(cwd, config.WorktreePrefix, id)
      say(result) == out' = [Out("add", id, result, <<>>, 0) EXCEPT !.cwd = cwd]
  IN
  IF InWorktreeDir(cwd) THEN
    /\ say("in_worktree")
    /\ UNCHANGED <<file, session, panes, active, nextPaneId, worktrees>>
  ELSE IF addWorkerWrongDir(config, cwd) THEN
    /\ say("wrong_dir")
    /\ UNCHANGED <<file, session, panes, active, nextPaneId, worktrees>>
  ELSE IF addWorkerAlreadyExists(config, id) THEN
    /\ say("exists")
    /\ UNCHANGED <<file, session, panes, active, nextPaneId, worktrees>>
  ELSE IF fault = "worktree" \/ ~CanAddWorktree(worktrees, worktreePath) THEN
    /\ say("worktree_error")
    /\ UNCHANGED <<file, session, panes, active, nextPaneId, worktrees>>
  ELSE IF ~SessionSeenFrom(cwd) THEN
    \* the worktree is added, then removed again (unless the removal fails)
    /\ say(IF fault = "rollback" THEN "no_session_worktree_left" ELSE "no_session")
    /\ worktrees' = addWorkerRollback(worktrees, worktreePath, fault)
    /\ UNCHANGED <<file, session, panes, active, nextPaneId>>
  ELSE IF fault \in {"split", "rollback"} \/ ~CanSplit(panes) THEN
    /\ say(IF fault = "rollback" THEN "split_error_worktree_left" ELSE "split_error")
    /\ worktrees' = addWorkerRollback(worktrees, worktreePath, fault)
    /\ UNCHANGED <<file, session, panes, active, nextPaneId>>
  ELSE
    LET split == SplitPanes(panes, active, nextPaneId)
        pos == addWorkerNewPanePos(split, active + 1)
        paneID == split[pos].id
        titled == IF fault = "title" THEN split ELSE Retitle(split, paneID, id)
        worker == Worker(id, worktreePath, paneID, pos - 1)
    IN
    /\ Len(config.Workers) < MaxWorkers
    /\ nextPaneId' = nextPaneId + 1
    /\ UNCHANGED session
    /\ IF fault = "info" THEN
         \* the pane stays, the worktree is removed
         /\ say("info_error")
         /\ panes' = split
         /\ active' = active + 1
         /\ UNCHANGED <<file, worktrees>>
       ELSE
         /\ panes' = titled
         \* select-pane -t paneID
         /\ active' = PanePos(titled, paneID)
         /\ worktrees' = worktrees \cup {worktreePath}
         /\ IF fault = "save" THEN say("save_error") /\ UNCHANGED file
            ELSE /\ file' = addWorkerSaved(config, worker, fault)
                 /\ say(CASE fault = "initcmd" -> "created_init_failed"
                          [] fault = "branch" -> "created_on_branch"
                          [] fault = "title" -> "created_untitled"
                          [] fault = "split_v" -> "created_after_hsplit"
                          [] OTHER -> "created")

addWorker(id, cwd, fault) == addWorkerLoaded(loadConfig(FileSeenFrom(cwd)), id, cwd, fault)

\* ----------------------------------------------------------- removeWorker
\* A lookup that settles for the first record when the id is not there.
IndexOfWorkerOrFirst(workers, id) ==
  IF id \in WorkerIDs(workers)
  THEN CHOOSE i \in 1..Len(workers) :
         workers[i].ID = id /\ \A j \in 1..(i - 1) : workers[j].ID # id
  ELSE IF workers = <<>> THEN 0 ELSE 1

\* The first record with the id (the loop breaks at it); 0 when there is none.
IndexOfWorker(workers, id) ==
  IF id \in WorkerIDs(workers)
  THEN CHOOSE i \in 1..Len(workers) :
         workers[i].ID = id /\ \A j \in 1..(i - 1) : workers[j].ID # id
  ELSE 0

\* removeWorker without the append of line 469: the slice is left as it is.
removeWorkerKeep(workers, workerIndex) == workers

\* config.Workers = append(config.Workers[:workerIndex], config.Workers[workerIndex+1:]...)
removeWorkerDrop(workers, workerIndex) == RemoveAt(workers, workerIndex)

\* tmux kill-pane -t <PaneID>: an empty target names the current pane.
KillTargetPos(ps, act, paneID) ==
  IF paneID = NoPane THEN act
  ELSE IF paneID \in PaneIds(ps) THEN PanePos(ps, paneID) ELSE 0

\* removeWorker with the config its loadConfig call returned.
removeWorkerLoaded(config, id, killOk, removeOk, forceOk, saveOk) ==
  LET workerIndex == IndexOfWorker(config.Workers, id)
  IN
  IF workerIndex = 0 THEN
    /\ out' = Out("remove", id, "not_found", <<>>, 0)
    /\ UNCHANGED <<file, session, panes, active, nextPaneId, worktrees>>
  ELSE
    LET worker == config.Workers[workerIndex]
        target == IF session /\ killOk
                  THEN KillTargetPos(panes, active, worker.PaneID) ELSE 0
        \* the "Warning: Could not ..." lines: kill-pane and the plain removal
        warnings == (IF target = 0 THEN 1 ELSE 0)
                    + (IF removeOk /\ worker.WorktreePath \in worktrees THEN 0 ELSE 1)
        say(result) == out' = Out("remove", id, result, <<>>, warnings)
    IN
    /\ IF target = 0 THEN UNCHANGED <<session, panes, active>>
       ELSE \E r \in KillResults(panes, active, target) :
              /\ panes' = r.panes
              /\ active' = r.active
              /\ session' = (r.panes # <<>>)
    /\ worktrees' = IF removeOk \/ forceOk THEN worktrees \ {worker.WorktreePath}
                    ELSE worktrees
    /\ UNCHANGED nextPaneId
    /\ IF saveOk
       THEN /\ file' = saveConfig([config EXCEPT
                                     !.Workers = removeWorkerDrop(@, workerIndex)])
            /\ say("removed")
       ELSE say("save_error") /\ UNCHANGED file

removeWorker(id, killOk, removeOk, forceOk, saveOk) ==
  removeWorkerLoaded(loadConfig(file), id, killOk, removeOk, forceOk, saveOk)

\* ------------------------------------------- listWorkers, showWorkerStatus
\* tmux list-panes -t <TmuxSession>:<WindowIndex> -f "#{==:#{pane_id},<PaneID>}"
\* exits 0 when the window is there, whether or not a pane passes the filter.
PaneProbe(worker) == session

Shown(worker, status, worktree) == [ID |-> worker.ID, Status |-> status, Worktree |-> worktree]

\* The STATUS column: worker.Status, or "inactive" when the probe fails.
listWorkersRow(worker) ==
  Shown(worker, IF PaneProbe(worker) THEN worker.Status ELSE "inactive", "")

listWorkers ==
  LET config == loadConfig(file) IN
  /\ out' = Out("list", "", IF config.Workers = <<>> THEN "none" ELSE "listed",
                [i \in 1..Len(config.Workers) |-> listWorkersRow(config.Workers[i])], 0)
  /\ UNCHANGED <<file, session, panes, active, nextPaneId, worktrees>>

\* The lines "Status: ..." and "Worktree: ..." of showWorkerStatus.
showWorkerStatusRow(worker) ==
  Shown(worker, IF PaneProbe(worker) THEN "active" ELSE "inactive",
        IF worker.WorktreePath \in worktrees THEN "exists" ELSE "missing")

showWorkerStatus(id) ==
  LET config == loadConfig(file)
      workerIndex == IndexOfWorker(config.Workers, id)
  IN
  /\ out' = IF workerIndex = 0 THEN Out("status", id, "not_found", <<>>, 0)
            ELSE Out("status", id, "shown",
                     <<showWorkerStatusRow(config.Workers[workerIndex])>>, 0)
  /\ UNCHANGED <<file, session, panes, active, nextPaneId, worktrees>>

\* ------------------------------------------------------------ initSession
\* An init that does not ask tmux for the session.
initSessionNeverExists == FALSE

\* tmux has-session -t sessionName succeeds: "Session '...' already exists".
initSessionAlreadyExists == session

initSession(initCommand, worktreePrefix, cwd, saveOk) ==
  IF initSessionAlreadyExists THEN
    /\ out' = Out("init", "", "exists", <<>>, 0)
    /\ UNCHANGED <<file, session, panes, active, nextPaneId, worktrees>>
  ELSE
    LET config == loadConfig(file)
        bound == [config EXCEPT
                    !.ProjectPath = cwd,
                    !.InitCommand = IF initCommand # "" THEN initCommand ELSE @,
                    !.WorktreePrefix = IF worktreePrefix # "" THEN worktreePrefix ELSE @]
    IN
    /\ nextPaneId <= MaxPaneId
    /\ session' = TRUE
    \* new-session -d, then select-pane -t <session>:0.0 -T projectName
    /\ panes' = <<[id |-> nextPaneId, title |-> projectName]>>
    /\ active' = 1
    /\ nextPaneId' = nextPaneId + 1
    /\ file' = IF saveOk THEN saveConfig(bound) ELSE file
    /\ out' = Out("init", "", IF saveOk THEN "created" ELSE "created_unsaved", <<>>, 0)
    /\ UNCHANGED worktrees

\* --------------------------------------------------------- destroySession
\* A destroy that starts the file over with the defaults.
destroyReset(config) == loadConfig(NoFile)

\* config.ProjectPath = "" and config.Workers = []Worker{}
destroyClear(config) == [config EXCEPT !.ProjectPath = "", !.Workers = <<>>]

destroySession(saveOk) ==
  IF ~session THEN
    /\ out' = Out("destroy", "", "no_session", <<>>, 0)
    /\ UNCHANGED <<file, session, panes, active, nextPaneId, worktrees>>
  ELSE
    /\ session' = FALSE
    /\ panes' = <<>>
    /\ active' = 0
    /\ file' = IF saveOk
               THEN saveConfig(destroyClear(loadConfig(file)))
               ELSE file
    /\ out' = Out("destroy", "", IF saveOk THEN "destroyed" ELSE "destroyed_unsaved",
                  <<>>, 0)
    /\ UNCHANGED <<nextPaneId, worktrees>>

\* ------------------------------------------------------- setConfigCommand
setConfigCommand(command, saveOk) ==
  /\ file' = IF saveOk THEN saveConfig([loadConfig(file) EXCEPT !.InitCommand = command])
             ELSE file
  /\ out' = Out("config_set", "", IF saveOk THEN "set" ELSE "save_error", <<>>, 0)
  /\ UNCHANGED <<session, panes, active, nextPaneId, worktrees>>

\* -------------------------------------------------- repairInconsistencies
\* What may go wrong in one run of repair: nothing, or one provider call, named by
\* its kind and by the worker, title or directory it is made for.
\*   list0: the first list-panes      split, list, title, worktree: the calls of the
\*   loop over the records            adopt_worktree, adopt_list: those of the adoption
\*   split_v: split-window -v fails where split-window -h would not; split: both would
\*   remove: both git worktree remove attempts            save: os.WriteFile
Fault(kind, target) == [kind |-> kind, target |-> target]

NoFault == Fault("none", "")

RepairFaults ==
  {NoFault, Fault("list0", ""), Fault("save", "")}
    \cup {Fault(k, t) : k \in {"split", "split_v", "list", "title", "worktree"},
                        t \in Ids \cup {HostTitle}}
    \cup {Fault(k, t) : k \in {"adopt_worktree", "adopt_list", "remove"},
                        t \in Ids \cup {HostTitle}}

\* The pane repair takes for the one it has just created: the last line of
\* list-panes (lines[len(lines)-1]).
repairNewPanePos(ps, act) == Len(ps)

\* A repair that also marks the record it binds as active.
repairBindActive(worker, newPaneID, paneIndexNum) ==
  [worker EXCEPT !.PaneIndex = paneIndexNum, !.PaneID = newPaneID, !.Status = "active"]

\* config.Workers[i].PaneIndex = paneIndexNum; config.Workers[i].PaneID = newPaneID
repairBind(worker, newPaneID, paneIndexNum) ==
  [worker EXCEPT !.PaneIndex = paneIndexNum, !.PaneID = newPaneID]

\* One round of the loop over config.Workers, on the state w the rounds before left:
\* [workers, panes, active, next, wts, count, errors].
repairWorker(w, i, paneMap, fault) ==
  LET worker == w.workers[i]
      missingPane == worker.ID \notin DOMAIN paneMap
      \* split-window -v is the one attempt
      splitFails == \/ fault \in {Fault("split", worker.ID), Fault("split_v", worker.ID)}
                    \/ ~CanSplit(w.panes)
      split == [w EXCEPT !.panes = SplitPanes(w.panes, w.active, w.next),
                         !.active = w.active + 1,
                         !.next = w.next + 1]
      pos == repairNewPanePos(split.panes, split.active)
      newPaneID == split.panes[pos].id
      bound == [split EXCEPT
                  !.panes = IF fault = Fault("title", worker.ID) THEN @
                            ELSE Retitle(@, newPaneID, worker.ID),
                  !.errors = IF fault = Fault("title", worker.ID) THEN @ + 1 ELSE @,
                  !.workers[i] = repairBind(@, newPaneID, pos - 1),
                  !.count = @ + 1]
      failed(x) == [x EXCEPT !.errors = @ + 1]
      \* the second half of the round: the missing worktree
      worktree(x) ==
        IF worker.WorktreePath \in x.wts THEN x
        ELSE IF fault = Fault("worktree", worker.ID) THEN failed(x)
        ELSE [x EXCEPT !.wts = @ \cup {worker.WorktreePath}, !.count = @ + 1]
  IN
  IF ~missingPane THEN worktree(w)
  ELSE IF splitFails THEN failed(w)                               \* continue
  ELSE IF fault = Fault("list", worker.ID) THEN failed(split)     \* continue
  ELSE worktree(bound)

RECURSIVE repairWorkers(_, _, _, _)
repairWorkers(w, i, paneMap, fault) ==
  IF i > Len(w.workers) THEN w
  ELSE repairWorkers(repairWorker(w, i, paneMap, fault), i + 1, paneMap, fault)

\* The first pane that carries the title now; 0 when none does.
FirstPaneTitled(ps, title) ==
  IF \E i \in 1..Len(ps) : ps[i].title = title
  THEN CHOOSE i \in 1..Len(ps) :
         ps[i].title = title /\ \A j \in 1..(i - 1) : ps[j].title # title
  ELSE 0

\* filepath.Join("./worktree", paneTitle)
adoptWorktreePath(prefix, paneTitle) == Path(hardcodedWorktreeDir, paneTitle)

\* One round of the loop over paneMap. configWorkers is the set of ids built before
\* the loop; it is not extended by the records the loop appends.
repairAdopt(w, paneTitle, configWorkers, prefix, fault) ==
  LET worktreePath == adoptWorktreePath(prefix, paneTitle)
      failed(x) == [x EXCEPT !.errors = @ + 1]
      made == IF worktreePath \in w.wts THEN w
              ELSE [w EXCEPT !.wts = @ \cup {worktreePath}]
      pos == FirstPaneTitled(made.panes, paneTitle)
  IN
  IF paneTitle \in configWorkers THEN w
  ELSE IF worktreePath \notin w.wts /\ fault = Fault("adopt_worktree", paneTitle)
       THEN failed(w)
  ELSE IF fault = Fault("adopt_list", paneTitle) THEN failed(made)
  ELSE IF pos = 0 THEN made
  ELSE [made EXCEPT
          !.workers = Append(@, Worker(paneTitle, worktreePath,
                                       made.panes[pos].id, pos - 1)),
          !.count = @ + 1]

RECURSIVE repairAdoptAll(_, _, _, _, _)
repairAdoptAll(w, titles, configWorkers, prefix, fault) ==
  IF titles = <<>> THEN w
  ELSE repairAdoptAll(repairAdopt(w, Head(titles), configWorkers, prefix, fault),
                      Tail(titles), configWorkers, prefix, fault)

\* The cleanup without the look at the panes.
repairOrphanedIgnoringPanes(wts, configWorkers, paneMap) ==
  {name \in WorktreeDirEntries(wts) : name \notin configWorkers}

\* The directories the last loop removes: those of "worktree" that neither
\* configWorkers nor paneMap names.
repairOrphanedWorktrees(wts, configWorkers, paneMap) ==
  {name \in WorktreeDirEntries(wts) : name \notin configWorkers /\ name \notin DOMAIN paneMap}

repairCleanup(w, configWorkers, paneMap, fault) ==
  LET orphans == repairOrphanedWorktrees(w.wts, configWorkers, paneMap)
      removed == {Path(hardcodedWorktreeDir, name) :
                    name \in {n \in orphans : fault # Fault("remove", n)}}
  IN [w EXCEPT !.wts = @ \ removed,
               !.count = @ + Cardinality(orphans),
               !.errors = @ + Cardinality({n \in orphans : fault = Fault("remove", n)})]

\* A run that wrote the file each time it changed a record: when the last write
\* fails, the file holds the records as the write before it left them.
repairSaveEach(config, workers, saved) ==
  IF workers = config.Workers /\ ~saved THEN file
  ELSE saveConfig([config EXCEPT !.Workers = workers])

\* The one saveConfig(config) of the run, after the three loops.
repairSave(config, workers, saved) ==
  IF saved THEN saveConfig([config EXCEPT !.Workers = workers]) ELSE file

repairInconsistencies(fault) ==
  IF ~hasSession THEN
    /\ out' = Out("repair", "", "no_session", <<>>, 0)
    /\ UNCHANGED <<file, session, panes, active, nextPaneId, worktrees>>
  ELSE IF fault = Fault("list0", "") THEN
    /\ out' = Out("repair", "", "list_error", <<>>, 0)
    /\ UNCHANGED <<file, session, panes, active, nextPaneId, worktrees>>
  ELSE
    LET config == loadConfig(file)
        paneMap == paneMapOf(panes)
        w0 == [workers |-> config.Workers, panes |-> panes, active |-> active,
               next |-> nextPaneId, wts |-> worktrees, count |-> 0, errors |-> 0]
        w1 == repairWorkers(w0, 1, paneMap, fault)
        configWorkers == WorkerIDs(w1.workers)
    IN
    \E order \in Orders(DOMAIN paneMap) :
      LET w2 == repairAdoptAll(w1, order, configWorkers, config.WorktreePrefix, fault)
          w3 == repairCleanup(w2, configWorkers, paneMap, fault)
          saved == fault # Fault("save", "")
      IN
      /\ Len(w3.workers) <= MaxWorkers
      /\ panes' = w3.panes
      /\ active' = w3.active
      /\ nextPaneId' = w3.next
      /\ worktrees' = w3.wts
      /\ file' = repairSave(config, w3.workers, saved)
      /\ out' = Out("repair", "",
                    IF ~saved THEN "save_error"
                    ELSE IF w3.errors > 0 THEN "repaired_with_errors" ELSE "repaired",
                    \* the "Error ..." line of the call that failed
                    IF fault # NoFault /\ (~saved \/ w3.errors > 0)
                    THEN <<Inconsistency(fault.kind, fault.target)>> ELSE <<>>,
                    w3.count)
      /\ UNCHANGED session

\* ------------------------------------------------- changes made by hand
\* The user, tmux and the file system change the three sets outside the tool.
ExtKillPane(i) ==
  /\ session /\ i \in 1..Len(panes)
  /\ \E r \in KillResults(panes, active, i) :
       /\ panes' = r.panes
       /\ active' = r.active
       /\ session' = (r.panes # <<>>)
  /\ out' = EnvOut
  /\ UNCHANGED <<file, nextPaneId, worktrees>>

ExtSplitPane ==
  /\ session /\ CanSplit(panes)
  /\ panes' = SplitPanes(panes, active, nextPaneId)
  /\ active' = active + 1
  /\ nextPaneId' = nextPaneId + 1
  /\ out' = EnvOut
  /\ UNCHANGED <<file, session, worktrees>>

ExtRetitlePane(i, title) ==
  /\ session /\ i \in 1..Len(panes) /\ panes[i].title # title
  /\ panes' = Retitle(panes, panes[i].id, title)
  /\ out' = EnvOut
  /\ UNCHANGED <<file, session, active, nextPaneId, worktrees>>

ExtSelectPane(i) ==
  /\ session /\ i \in 1..Len(panes) /\ i # active
  /\ active' = i
  /\ out' = EnvOut
  /\ UNCHANGED <<file, session, panes, nextPaneId, worktrees>>

ExtAddDir(path) ==
  /\ path \notin worktrees
  /\ worktrees' = worktrees \cup {path}
  /\ out' = EnvOut
  /\ UNCHANGED <<file, session, panes, active, nextPaneId>>

ExtRemoveDir(path) ==
  /\ path \in worktrees
  /\ worktrees' = worktrees \ {path}
  /\ out' = EnvOut
  /\ UNCHANGED <<file, session, panes, active, nextPaneId>>

\* The cached status of a record edited in the file.
ExtSetStatus(i, status) ==
  /\ file.exists /\ i \in 1..Len(file.workers) /\ file.workers[i].Status # status
  /\ file' = [file EXCEPT !.workers[i].Status = status]
  /\ out' = EnvOut
  /\ UNCHANGED <<session, panes, active, nextPaneId, worktrees>>

\* A record written into the file by hand: no pane handle, no creation time, the
\* status inactive, the path the tool would give it. Ids stay unique.
ExtAddRecord(id) ==
  LET config == loadConfig(file) IN
  /\ file.exists /\ id \notin WorkerIDs(file.workers) /\ Len(file.workers) < MaxWorkers
  /\ file' = [file EXCEPT !.workers =
                Append(@, [Worker(id, WorktreePathOf(config.WorktreePrefix, id), NoPane, 0)
                             EXCEPT !.CreatedAt = ZeroTime, !.Status = "inactive"])]
  /\ out' = EnvOut
  /\ UNCHANGED <<session, panes, active, nextPaneId, worktrees>>

ExtRemoveRecord(i) ==
  /\ file.exists /\ i \in 1..Len(file.workers)
  /\ file' = [file EXCEPT !.workers = RemoveAt(@, i)]
  /\ out' = EnvOut
  /\ UNCHANGED <<session, panes, active, nextPaneId, worktrees>>

\* ------------------------------------------------------------ the system
Cwds == {ProjectDir, OtherDir, InDefaultWorktree, InCustomWorktree}

\* The working directory exists: a worktree one can stand in is on disk.
CanStandIn(cwd) ==
  IF WorktreeOfCwd(cwd) = <<>> THEN TRUE
  ELSE Path(WorktreeOfCwd(cwd)[1], WorktreeOfCwd(cwd)[2]) \in worktrees

\* A command in which a provider call fails, and a change made by hand, are the
\* events of a behaviour; MaxEvents bounds them. The commands of Spec run one
\* after the other: none is under way when the next starts.
\* The tmux server never runs out of handles; a behaviour stops using new ones
\* at the bound.
HandlesWithin(bound) == nextPaneId' <= bound + 1

Faulty(isFault) ==
  /\ IF isFault THEN used < MaxEvents /\ used' = used + 1 ELSE UNCHANGED used
  /\ UNCHANGED <<loaded, branches>>

ByHand == used < MaxEvents /\ used' = used + 1 /\ UNCHANGED <<loaded, branches>>

\* A fault is drawn only where the failing call is made: the command's report
\* names it. A failure that leaves the same panes, directories and file as the
\* run without it (a split retried the other way, a warning, a listing that
\* stops a read-only command) is not counted as an event, and neither are the
\* failing write that ends a run of repair and a vertical split that fails in
\* repair where the horizontal one would not.
AddWorker ==
  \E id \in Ids, cwd \in Cwds, fault \in AddFaults :
    /\ CanStandIn(cwd)
    /\ Faulty(fault \notin {"none", "split_v", "initcmd"})
    /\ addWorker(id, cwd, fault)
    /\ HandlesWithin(MaxPaneId)
    /\ fault # "none" => out'.result \in AddFaultResults(fault)

RemoveWorker ==
  \E id \in Ids \cup {HostTitle}, killOk, removeOk, forceOk, saveOk \in BOOLEAN :
    /\ Faulty(~(killOk /\ removeOk /\ forceOk /\ saveOk))
    /\ removeOk => forceOk
    /\ removeWorker(id, killOk, removeOk, forceOk, saveOk)
    /\ out'.result = "not_found" => killOk /\ removeOk /\ saveOk

InitSession ==
  \E worktreePrefix \in {"", CustomPrefix}, cwd \in {ProjectDir}, saveOk \in BOOLEAN :
    /\ Faulty(~saveOk)
    /\ initSession("", worktreePrefix, cwd, saveOk)
    /\ out'.result = "exists" => saveOk

DestroySession ==
  \E saveOk \in BOOLEAN :
    /\ Faulty(~saveOk)
    /\ destroySession(saveOk)
    /\ out'.result = "no_session" => saveOk

CheckConsistency ==
  \E listOk \in BOOLEAN :
    /\ Faulty(FALSE)
    /\ checkConsistency(listOk)
    /\ out'.result = "no_session" => listOk

RepairInconsistencies ==
  \E fault \in RepairFaults :
    /\ Faulty(fault \notin {NoFault, Fault("list0", ""), Fault("save", "")}
                           \cup {Fault("split_v", t) : t \in Ids})
    /\ repairInconsistencies(fault)
    /\ HandlesWithin(MaxPaneId)
    /\ fault # NoFault => out'.result \in {"list_error", "save_error", "repaired_with_errors"}

KillPaneByHand == ByHand /\ \E i \in 1..MaxPanes : ExtKillPane(i)

SplitPaneByHand == ByHand /\ ExtSplitPane /\ HandlesWithin(MaxPaneId)

RetitlePaneByHand ==
  ByHand /\ \E i \in 1..MaxPanes, title \in Ids \cup {Sentinel} : ExtRetitlePane(i, title)

\* Moving the focus changes no record, pane or directory: it is not counted.
SelectPaneByHand ==
  UNCHANGED <<used, loaded, branches>> /\ \E i \in 1..MaxPanes : ExtSelectPane(i)

AddDirByHand ==
  ByHand /\ \E path \in {Path(d, n) : d \in Prefixes, n \in Ids} : ExtAddDir(path)

RemoveDirByHand == ByHand /\ \E path \in worktrees : ExtRemoveDir(path)

AddRecordByHand == ByHand /\ \E id \in Ids : ExtAddRecord(id)

RemoveRecordByHand == ByHand /\ \E i \in 1..MaxWorkers : ExtRemoveRecord(i)

Next ==
  \/ AddWorker
  \/ RemoveWorker
  \/ InitSession
  \/ DestroySession
  \/ CheckConsistency
  \/ RepairInconsistencies
  \/ KillPaneByHand
  \/ SplitPaneByHand
  \/ RetitlePaneByHand
  \/ SelectPaneByHand
  \/ AddDirByHand
  \/ RemoveDirByHand
  \/ AddRecordByHand
  \/ RemoveRecordByHand

Spec == Init /\ [][Next]_vars

\* ------------------------------------------ two invocations side by side
\* Two gtw processes in the project directory of a session that gtw init has
\* made. An invocation of add or remove is two steps: its loadConfig, and the rest
\* of the handler, which works with the config it loaded and ends with its
\* saveConfig. No call fails.
InitRace ==
  /\ loaded = [p \in Procs |-> Idle]
  /\ branches = {}
  /\ file = saveConfig([loadConfig(NoFile) EXCEPT !.ProjectPath = ProjectDir])
  /\ session = TRUE
  /\ panes = <<[id |-> 1, title |-> projectName]>>
  /\ active = 1
  /\ nextPaneId = 2
  /\ worktrees = {}
  /\ out = EnvOut
  /\ used = 0

\* A handler that reads the file again before it writes it.
reloadedConfig(p) == loadConfig(file)

\* The config variable of the handler the process is in.
loadedConfig(p) == loaded[p].config

\* config, err := loadConfig()
StartCommand ==
  \E p \in Procs, cmd \in {"add", "remove"}, id \in Ids :
    /\ loaded[p] = Idle
    /\ loaded' = [loaded EXCEPT ![p] = [cmd |-> cmd, id |-> id, config |-> loadConfig(file)]]
    /\ out' = EnvOut
    /\ UNCHANGED <<file, session, panes, active, nextPaneId, worktrees, used, branches>>

FinishAdd ==
  \E p \in Procs :
    /\ loaded[p].cmd = "add"
    /\ addWorkerLoaded(loadedConfig(p), loaded[p].id, ProjectDir, "none")
    /\ HandlesWithin(MaxPaneId)
    /\ loaded' = [loaded EXCEPT ![p] = Idle]
    /\ UNCHANGED <<used, branches>>

FinishRemove ==
  \E p \in Procs :
    /\ loaded[p].cmd = "remove"
    /\ removeWorkerLoaded(loadedConfig(p), loaded[p].id, TRUE, TRUE, TRUE, TRUE)
    /\ loaded' = [loaded EXCEPT ![p] = Idle]
    /\ UNCHANGED <<used, branches>>

NextRace == StartCommand \/ FinishAdd \/ FinishRemove

SpecRace == InitRace /\ [][NextRace]_vars

\* ----------------------------------------------- the workers on display
\* The commands that make and remove workers and sessions, the two that display
\* them, and the two changes by hand the display is about: a pane killed, a
\* cached status edited.
ListWorkers == Faulty(FALSE) /\ listWorkers

ShowWorkerStatus == Faulty(FALSE) /\ \E id \in Ids : showWorkerStatus(id)

SetStatusByHand ==
  ByHand /\ \E i \in 1..MaxWorkers, status \in {"active", "inactive"} : ExtSetStatus(i, status)

NextList ==
  \/ AddWorker
  \/ RemoveWorker
  \/ InitSession
  \/ DestroySession
  \/ KillPaneByHand
  \/ SetStatusByHand
  \/ ListWorkers
  \/ ShowWorkerStatus

SpecList == Init /\ [][NextList]_vars

\* ------------------------------------------------- the registry file alone
\* The files loadConfig may find: none, or a JSON object in which each optional
\* key is absent, empty or set, with or without a record.
StoredWorkers == {<<>>, <<Worker("a", Path(hardcodedWorktreeDir, "a"), 2, 1)>>}

StoredFiles ==
  {NoFile} \cup
  [exists : {TRUE}, workers : StoredWorkers,
   init_command : {Absent, "", getDefaultInitCommand, CustomCommand},
   worktree_prefix : {Absent, "", getDefaultWorktreePrefix, CustomPrefix},
   project_path : {Absent, "", ProjectDir}]

InitStore ==
  /\ loaded = [p \in Procs |-> Idle]
  /\ branches = {}
  /\ file \in StoredFiles
  /\ session = FALSE
  /\ panes = <<>>
  /\ active = 0
  /\ nextPaneId = 1
  /\ worktrees = {}
  /\ out = EnvOut
  /\ used = 0

\* saveConfig(loadConfig()) with nothing in between.
SaveLoad ==
  /\ file' = saveConfig(loadConfig(file))
  /\ out' = Out("save_load", "", IF file' = file THEN "same" ELSE "rewritten", <<>>, 0)
  /\ UNCHANGED <<session, panes, active, nextPaneId, worktrees, used, loaded, branches>>

SetConfigCommand ==
  \E command \in Commands \cup {""}, saveOk \in BOOLEAN :
    /\ Faulty(~saveOk)
    /\ setConfigCommand(command, saveOk)

NextStore == SaveLoad \/ SetConfigCommand

SpecStore == InitStore /\ [][NextStore]_vars

\* --------------------------------------------- the repository's branches
\* Spec draws the outcome of the two git worktree add attempts of addWorker
\* (the fault "worktree") and leaves the branches alone. Here the branches are
\* followed, and the outcome is what git makes of them: create and destroy from
\* the project directory, the session made and killed, and branches made and
\* deleted by hand.
Nowhere == Path("", "")

BranchNames(br) == {b.name : b \in br}

CheckedOut(br, id) == \E b \in br : b.name = id /\ b.at # Nowhere

\* git worktree add -b <id> <path>: refuses a branch name that exists.
CanAddNewBranch(br, wts, path, id) ==
  id \notin BranchNames(br) /\ CanAddWorktree(wts, path)

\* git worktree add <path> <id>: wants the branch, checked out nowhere.
CanAddExistingBranch(br, wts, path, id) ==
  id \in BranchNames(br) /\ ~CheckedOut(br, id) /\ CanAddWorktree(wts, path)

\* The branches once the worktree at path has branch id checked out.
gitWorktreeAdd(br, path, id) ==
  {b \in br : b.name # id} \cup {[name |-> id, at |-> path]}

\* git worktree remove <path>: the branch stays, checked out nowhere.
gitWorktreeRemove(br, path) ==
  {IF b.at = path THEN [b EXCEPT !.at = Nowhere] ELSE b : b \in br}

\* An addWorker that stops when git worktree add -b fails.
addWorkerNewBranchOnly(br, wts, path, id) ==
  IF CanAddNewBranch(br, wts, path, id) THEN "none" ELSE "worktree"

\* The two attempts of addWorker: with -b, and when that fails without it.
addWorkerWorktreeFault(br, wts, path, id) ==
  IF CanAddNewBranch(br, wts, path, id) THEN "none"
  ELSE IF CanAddExistingBranch(br, wts, path, id) THEN "branch"
  ELSE "worktree"

\* The branches addWorker leaves: the worktree it added has the branch checked
\* out, and the rollbacks that remove the worktree leave the branch behind.
addWorkerBranches(br, path, id, result) ==
  IF result \in AddCreated \cup {"save_error"} THEN gitWorktreeAdd(br, path, id)
  ELSE IF result \in {"no_session", "split_error", "info_error"}
  THEN gitWorktreeRemove(gitWorktreeAdd(br, path, id), path)
  ELSE br

AddWorkerBranch ==
  \E id \in Ids :
    LET path == WorktreePathFrom(ProjectDir, loadConfig(file).WorktreePrefix, id)
    IN /\ addWorker(id, ProjectDir,
                    addWorkerWorktreeFault(branches, worktrees, path, id))
       /\ HandlesWithin(MaxPaneId)
       /\ branches' = addWorkerBranches(branches, path, id, out'.result)
       /\ UNCHANGED <<used, loaded>>

RemoveWorkerBranch ==
  \E id \in Ids :
    /\ removeWorker(id, TRUE, TRUE, TRUE, TRUE)
    /\ branches' = LET workers == loadConfig(file).Workers
                       workerIndex == IndexOfWorker(workers, id)
                   IN IF workerIndex = 0 THEN branches
                      ELSE gitWorktreeRemove(branches, workers[workerIndex].WorktreePath)
    /\ UNCHANGED <<used, loaded>>

\* git branch <id>
ExtCreateBranch(id) ==
  /\ id \notin BranchNames(branches)
  /\ branches' = branches \cup {[name |-> id, at |-> Nowhere]}
  /\ out' = EnvOut
  /\ UNCHANGED <<file, session, panes, active, nextPaneId, worktrees>>

\* git branch -D <id>: refuses a branch that is checked out.
ExtDeleteBranch(id) ==
  /\ id \in BranchNames(branches)
  /\ ~CheckedOut(branches, id)
  /\ branches' = {b \in branches : b.name # id}
  /\ out' = EnvOut
  /\ UNCHANGED <<file, session, panes, active, nextPaneId, worktrees>>

CreateBranchByHand ==
  /\ used < MaxEvents /\ used' = used + 1 /\ UNCHANGED loaded
  /\ \E id \in Ids : ExtCreateBranch(id)

DeleteBranchByHand ==
  /\ used < MaxEvents /\ used' = used + 1 /\ UNCHANGED loaded
  /\ \E id \in Ids : ExtDeleteBranch(id)

NextBranch ==
  \/ AddWorkerBranch
  \/ RemoveWorkerBranch
  \/ InitSession
  \/ DestroySession
  \/ CreateBranchByHand
  \/ DeleteBranchByHand

SpecBranch == Init /\ [][NextBranch]_vars

\* ------------------------------------------------------ panes that die
\* Workers made, removed and repaired from the project directory with no call
\* failing, while panes are killed by hand.
AddWorkerUnfailing ==
  \E id \in Ids :
    /\ Faulty(FALSE)
    /\ addWorker(id, ProjectDir, "none")
    /\ HandlesWithin(MaxKillPaneId)

RemoveWorkerUnfailing ==
  \E id \in Ids : Faulty(FALSE) /\ removeWorker(id, TRUE, TRUE, TRUE, TRUE)

InitSessionUnfailing ==
  \E worktreePrefix \in {"", CustomPrefix} :
    Faulty(FALSE) /\ initSession("", worktreePrefix, ProjectDir, TRUE)

DestroySessionUnfailing == Faulty(FALSE) /\ destroySession(TRUE)

RepairUnfailing ==
  /\ Faulty(FALSE)
  /\ repairInconsistencies(NoFault)
  /\ HandlesWithin(MaxKillPaneId)

NextKill ==
  \/ AddWorkerUnfailing
  \/ RemoveWorkerUnfailing
  \/ InitSessionUnfailing
  \/ DestroySessionUnfailing
  \/ RepairUnfailing
  \/ KillPaneByHand
  \/ SelectPaneByHand

SpecKill == Init /\ [][NextKill]_vars

\* ------------------------------------------------- ids create accepts
\* addWorker takes its argument as it comes: the project's own name is an id
\* like any other. Workers made and removed with no call failing, the session
\* made and killed, and check.
AnyIds == Ids \cup {projectName}

AddWorkerAnyId ==
  \E id \in AnyIds :
    /\ Faulty(FALSE)
    /\ addWorker(id, ProjectDir, "none")
    /\ HandlesWithin(MaxPaneId)

RemoveWorkerAnyId ==
  \E id \in AnyIds : Faulty(FALSE) /\ removeWorker(id, TRUE, TRUE, TRUE, TRUE)

NextAnyId ==
  \/ AddWorkerAnyId
  \/ RemoveWorkerAnyId
  \/ InitSession
  \/ DestroySession
  \/ CheckConsistency

SpecAnyId == Init /\ [][NextAnyId]_vars

\* ------------------------------------------------------ init with flags
\* Every gtw init is given both --command and --worktree-prefix; workers are
\* made and removed, the session is killed, and the command is set anew.
InitSessionWithFlags ==
  \E initCommand \in Commands, saveOk \in BOOLEAN :
    /\ Faulty(~saveOk)
    /\ initSession(initCommand, CustomPrefix, ProjectDir, saveOk)
    /\ out'.result = "exists" => saveOk

NextInit ==
  \/ InitSessionWithFlags
  \/ AddWorker
  \/ RemoveWorker
  \/ DestroySession
  \/ SetConfigCommand

SpecInit == Init /\ [][NextInit]_vars

\* ================================================================ claims
Refused == {"exists", "wrong_dir", "in_worktree"}

UniqueIds ==
  \A i, j \in 1..Len(file.workers) : file.workers[i].ID = file.workers[j].ID => i = j

RecordsOf(workers, id) == {i \in 1..Len(workers) : workers[i].ID = id}

\* C1: no step leaves two records with one id in the registry, and an add of an id
\* the registry of its working directory already holds is refused and leaves the registry file, the panes
\* and the worktree directories as they were, with exactly one record of the id.
C1_CreateKeepsIdsUnique ==
  [][/\ UniqueIds'
     /\ (out'.cmd = "add"
           /\ out'.id \in WorkerIDs(loadConfig(FileSeenFrom(out'.cwd)).Workers))
          => /\ out'.result \in Refused
             /\ UNCHANGED <<file, panes, worktrees>>
             /\ Cardinality(RecordsOf(file'.workers, out'.id)) = 1]_vars

\* An add was refused for an id that is in the registry, next to another record.
C1_Witness ==
  /\ out.cmd = "add" /\ out.result = "exists"
  /\ Cardinality(RecordsOf(file.workers, out.id)) = 1
  /\ Len(file.workers) = 2

\* C4: a remove of an id the registry holds, once it has written the registry,
\* leaves no record of that id in the file, whatever kill-pane and the two
\* git worktree remove attempts did.
C4_DestroyDropsRecord ==
  [][(/\ out'.cmd = "remove"
      /\ out'.id \in WorkerIDs(loadConfig(file).Workers)
      /\ out'.result # "save_error")
       => /\ out'.result = "removed"
          /\ file'.exists
          /\ out'.id \notin WorkerIDs(file'.workers)]_vars

\* A remove completed although the pane and the directory of the worker are
\* still there.
C4_Witness ==
  /\ out.cmd = "remove" /\ out.result = "removed"
  /\ out.id \notin WorkerIDs(file.workers)
  /\ Path(loadConfig(file).WorktreePrefix, out.id) \in worktrees
  /\ \E i \in 1..Len(panes) : panes[i].title = out.id


Reported(type, id) == Inconsistency(type, id) \in SeqToSet(out.report)

Checked == out.cmd = "check" /\ out.result = "done"

Reserved(title) == title = projectName \/ title = Sentinel

PaneTitled(ps, title) == \E i \in 1..Len(ps) : ps[i].title = title

\* C2: a check that directly follows a repair that reported no failure finds
\* nothing.
C2_RepairThenCheckIsClean ==
  [][(/\ out.cmd = "repair" /\ out.result = "repaired"
      /\ out'.cmd = "check" /\ out'.result = "done")
       => out'.report = <<>>]_vars

\* C3: a repair that directly follows a repair that reported no failure repairs
\* nothing: its count is 0 and the file, the panes and the directories stay.
C3_SecondRepairDoesNothing ==
  [][(/\ out.cmd = "repair" /\ out.result = "repaired"
      /\ out'.cmd = "repair")
       => /\ out'.count = 0
          /\ UNCHANGED <<file, panes, worktrees>>]_vars

\* A file save(load()) reproduces: it exists, init_command and worktree_prefix
\* are set, and project_path is absent or set.
Settled(f) ==
  /\ f.exists
  /\ f.init_command \notin {Absent, ""}
  /\ f.worktree_prefix \notin {Absent, ""}
  /\ f.project_path # ""

\* C5 (as claimed): save(load()) leaves every file as it is, the missing file and
\* the files with absent optional keys included.
C5_SaveLoadIsNoOp ==
  [][out'.cmd = "save_load" => file' = file]_vars

\* C5 (amended): save(load()) leaves a file as it is iff the file exists, holds
\* non-empty init_command and worktree_prefix, and holds no empty project_path;
\* any other file is rewritten with the defaults filled in and the empty keys
\* dropped, and the file it writes is one that a further save(load()) leaves as
\* it is.
C5_SaveLoadSettles ==
  [][out'.cmd = "save_load" =>
       /\ file' = file <=> Settled(file)
       /\ Settled(file')
       /\ saveConfig(loadConfig(file')) = file'
       /\ file'.workers = file.workers]_vars

\* save(load()) has left a file with a record and no project_path as it was.
C5_Witness ==
  /\ out.cmd = "save_load" /\ out.result = "same"
  /\ file.project_path = Absent
  /\ file.workers # <<>>

\* C6: a check changes neither the registry file, nor the session and its panes
\* (their handles, titles, order and focus), nor the worktree directories.
C6_CheckIsPureRead ==
  [][out'.cmd = "check"
       => UNCHANGED <<file, session, panes, active, nextPaneId, worktrees>>]_vars

\* A check has run on a drifted state and reported something.
C6_Witness ==
  /\ Checked /\ Len(out.report) >= 2
  /\ file.workers # <<>> /\ Len(panes) >= 2 /\ worktrees # {}

\* C7: for every record, check reports a missing pane iff no pane of window 0
\* carries the record's id as a non-reserved title, and a missing worktree iff
\* the record's path is not on disk; it reports both when both hold.
C7_MissingFindings ==
  Checked =>
    \A i \in 1..Len(file.workers) :
      LET w == file.workers[i] IN
      /\ Reported("MissingPane", w.ID)
           <=> ~(PaneTitled(panes, w.ID) /\ ~Reserved(w.ID))
      /\ Reported("MissingWorktree", w.ID) <=> w.WorktreePath \notin worktrees

\* A check reported both findings for one record, and neither for another.
C7_Witness ==
  /\ Checked
  /\ \E i \in 1..Len(file.workers) :
       /\ Reported("MissingPane", file.workers[i].ID)
       /\ Reported("MissingWorktree", file.workers[i].ID)
  /\ \E i \in 1..Len(file.workers) :
       /\ ~Reported("MissingPane", file.workers[i].ID)
       /\ ~Reported("MissingWorktree", file.workers[i].ID)

OrphanedPane(f, ps, title) ==
  /\ PaneTitled(ps, title)
  /\ ~Reserved(title)
  /\ title \notin WorkerIDs(f.workers)

\* C8: check reports an orphaned pane for a title iff a pane of window 0 carries
\* it, it is neither the project-root title nor the sentinel, and no record has
\* it as id; the project-root title is never reported and repair never makes a
\* record of it.
C8_OrphanedPanes ==
  [][/\ Checked' =>
          /\ \A k \in 1..Len(out'.report) :
               out'.report[k].Type = "OrphanedPane"
                 => OrphanedPane(file', panes', out'.report[k].WorkerID)
          /\ \A j \in 1..Len(panes') :
               OrphanedPane(file', panes', panes'[j].title)
                 => Inconsistency("OrphanedPane", panes'[j].title)
                      \in SeqToSet(out'.report)
          /\ \A type \in {"OrphanedPane", "MissingPane", "MissingWorktree"} :
               Inconsistency(type, projectName) \notin SeqToSet(out'.report)
     /\ out'.cmd = "repair" =>
          \A title \in WorkerIDs(file'.workers) \ WorkerIDs(file.workers) :
            ~Reserved(title)]_vars

\* A check reported an orphaned pane while the project-root pane and the pane
\* of a record were there.
C8_Witness ==
  /\ Checked
  /\ \E k \in 1..Len(out.report) : out.report[k].Type = "OrphanedPane"
  /\ PaneTitled(panes, projectName)
  /\ \E i \in 1..Len(file.workers) : PaneTitled(panes, file.workers[i].ID)

\* C9: check reports an orphaned worktree for a name iff a directory of that name
\* lies under the worktree prefix of the registry file and no record has the name
\* as id.
C9_OrphanedWorktrees ==
  Checked =>
    \A name \in Titles :
      Reported("OrphanedWorktree", name)
        <=> /\ Path(loadConfig(file).WorktreePrefix, name) \in worktrees
            /\ name \notin WorkerIDs(file.workers)

\* C10: a repair that reports no failure gives every record that has its worktree
\* and no pane of its title a pane it has just created, titled with the record's
\* id, and stores that pane's handle in the record.
C10_RepairCreatesTitledPane ==
  [][(out'.cmd = "repair" /\ out'.result = "repaired")
       => \A i \in 1..Len(file.workers) :
            LET A == file.workers[i] IN
            (A.WorktreePath \in worktrees /\ ~PaneTitled(panes, A.ID))
              => \E j \in 1..Len(panes') :
                   /\ panes'[j].id \notin PaneIds(panes)
                   /\ panes'[j].title = A.ID
                   /\ \E k \in 1..Len(file'.workers) :
                        /\ file'.workers[k].ID = A.ID
                        /\ file'.workers[k].PaneID = panes'[j].id]_vars


\* A directory of the configured prefix that neither a record nor a pane title
\* names.
UnclaimedDir(f, ps, wts, name) ==
  /\ Path(loadConfig(f).WorktreePrefix, name) \in wts
  /\ name \notin WorkerIDs(f.workers)
  /\ ~PaneTitled(ps, name)

\* C11: for a directory under the configured worktree prefix that no record and
\* no pane title names, check reports exactly one orphaned worktree, and a repair
\* that reports no failure removes the directory.
C11_OrphanedWorktreeRemoved ==
  [][/\ Checked' =>
          \A name \in Titles :
            UnclaimedDir(file', panes', worktrees', name) =>
              Cardinality({k \in 1..Len(out'.report) :
                             out'.report[k] = Inconsistency("OrphanedWorktree", name)}) = 1
     /\ (out'.cmd = "repair" /\ out'.result = "repaired") =>
          \A name \in Titles :
            UnclaimedDir(file, panes, worktrees, name) =>
              Path(loadConfig(file).WorktreePrefix, name) \notin worktrees']_vars

\* A pane title that is not reserved, that no record has as id and for which no
\* directory of that name exists under the configured prefix or under "worktree".
GhostPane(f, ps, wts, title) ==
  /\ PaneTitled(ps, title)
  /\ ~Reserved(title)
  /\ title \notin WorkerIDs(f.workers)
  /\ \A p \in wts : p.name # title

OnlyFinding(f, ps, wts, finding) ==
  \A report \in CheckReports(f, ps, wts) : report = <<finding>>

\* C12: a repair that reports no failure gives every pane title without record and
\* without directory a worktree directory and a new record, whose id is the title,
\* whose path is the directory and whose handle is that of a pane carrying the
\* title; when that pane was the only finding, a check of the state repair leaves
\* reports nothing.
C12_GhostPaneAdopted ==
  [][(out'.cmd = "repair" /\ out'.result = "repaired") =>
       \A title \in Titles :
         GhostPane(file, panes, worktrees, title) =>
           /\ \E k \in 1..Len(file'.workers) :
                LET r == file'.workers[k] IN
                /\ r.ID = title
                /\ r.WorktreePath.name = title
                /\ r.WorktreePath \in worktrees'
                /\ \E j \in 1..Len(panes') :
                     panes'[j].title = title /\ panes'[j].id = r.PaneID
           /\ OnlyFinding(file, panes, worktrees, Inconsistency("OrphanedPane", title))
                => CheckReports(file', panes', worktrees') = {<<>>}]_vars

\* A repair has adopted the one pane that had neither record nor directory.
C12_Witness ==
  /\ out.cmd = "repair" /\ out.result = "repaired" /\ out.count = 1
  /\ \E k \in 1..Len(file.workers) :
       /\ file.workers[k].ID = HostTitle
       /\ file.workers[k].WorktreePath \in worktrees
       /\ \E j \in 1..Len(panes) :
            panes[j].title = HostTitle /\ panes[j].id = file.workers[k].PaneID
  /\ CheckReports(file, panes, worktrees) = {<<>>}

\* The worker id is whole: one record has the id, its path is <prefix>/<id> and
\* is on disk, and its handle is that of a pane titled id.
Whole(f, ps, wts, id) ==
  \E k \in 1..Len(f.workers) :
    LET r == f.workers[k] IN
    /\ r.ID = id
    /\ r.WorktreePath = Path(loadConfig(f).WorktreePrefix, id)
    /\ r.WorktreePath \in wts
    /\ \E j \in 1..Len(ps) : ps[j].id = r.PaneID /\ ps[j].title = id

\* Nothing of the worker id is left: no record, no directory, no pane titled id.
Gone(f, ps, wts, id) ==
  /\ id \notin WorkerIDs(f.workers)
  /\ Path(loadConfig(f).WorktreePrefix, id) \notin wts
  /\ ~PaneTitled(ps, id)

AddSucceeded == {"created", "created_after_hsplit", "created_init_failed"}

\* C13: after an add in which every provisioning call succeeded, the directory
\* <prefix>/<id>, a pane titled id and a record of id bound to both exist; a
\* remove of a worker that is whole, run without warning, leaves none of the three.
C13_WorkerWholeThenGone ==
  [][/\ (out'.cmd = "add" /\ out'.result \in AddSucceeded)
          => Whole(file', panes', worktrees', out'.id)
     /\ (/\ out'.cmd = "remove" /\ out'.result = "removed" /\ out'.count = 0
         /\ Whole(file, panes, worktrees, out'.id)
         /\ Cardinality({j \in 1..Len(panes) : panes[j].title = out'.id}) = 1)
          => Gone(file', panes', worktrees', out'.id)]_vars

\* A worker was created under a prefix given to init and removed again.
C13_Witness ==
  /\ out.cmd = "remove" /\ out.result = "removed" /\ out.count = 0
  /\ file.worktree_prefix = CustomPrefix
  /\ Gone(file, panes, worktrees, out.id)
  /\ file.workers # <<>>
  /\ session

\* The working directory lies in a directory under the configured prefix.
InConfiguredWorktree(f, cwd) ==
  /\ WorktreeOfCwd(cwd) # <<>>
  /\ WorktreeOfCwd(cwd)[1] = loadConfig(f).WorktreePrefix

\* C14: an add run from inside a directory under the configured worktree prefix is
\* refused by the working-directory test and changes neither the registry file,
\* nor the session and its panes, nor the worktree directories.
C14_RefusedInsideWorktree ==
  [][(out'.cmd = "add" /\ InConfiguredWorktree(file, out'.cwd))
       => /\ out'.result = "in_worktree"
          /\ UNCHANGED <<file, session, panes, active, nextPaneId, worktrees>>]_vars

BoundPath(f) == loadConfig(f).ProjectPath

C16_RollbackOnProvisioningFailure ==
  [][(out'.cmd = "add" /\ out'.result \in {"no_session", "split_error"})
       => /\ WorktreePathFrom(out'.cwd,
                              loadConfig(FileSeenFrom(out'.cwd)).WorktreePrefix,
                              out'.id) \notin worktrees'
          /\ worktrees' = worktrees
          /\ panes' = panes /\ nextPaneId' = nextPaneId
          /\ file' = file]_vars

\* An add was stopped by a failing split while the session and a worker were
\* there.
C16_Witness ==
  /\ out.cmd = "add" /\ out.result = "split_error"
  /\ session /\ file.workers # <<>>
  /\ out.id \notin WorkerIDs(file.workers)

LateAddFailures == {"info_error", "created_untitled", "save_error", "created_init_failed"}

\* C17: an add in which display-message, select-pane -T, the write of the registry
\* file or send-keys fails leaves the worktree directory it made and the pane it
\* split off in place.
C17_LateFailureKeepsWorktreeAndPane ==
  [][(out'.cmd = "add" /\ out'.result \in LateAddFailures)
       => /\ WorktreePathFrom(out'.cwd,
                              loadConfig(FileSeenFrom(out'.cwd)).WorktreePrefix,
                              out'.id) \in worktrees'
          /\ PaneIds(panes') = PaneIds(panes) \cup {nextPaneId}]_vars

\* The names of the directories a step takes away.
RemovedNames == {p.name : p \in worktrees \ worktrees'}

LiveTitles(ps) == {ps[i].title : i \in {j \in 1..Len(ps) : Listed(ps[j].title)}}

\* C18: repair removes no directory named after a record of the registry file, as
\* it was before the run or as the run leaves it (adopted records included), and
\* none named after the title of a pane that check would list.
C18_RepairSparesClaimedDirs ==
  [][out'.cmd = "repair"
       => \A name \in RemovedNames :
            /\ name \notin WorkerIDs(file.workers)
            /\ name \notin WorkerIDs(file'.workers)
            /\ name \notin LiveTitles(panes)]_vars

\* A run of repair that removed the one directory nobody claimed and left the
\* directory of worker "a", whose pane is there, alone.
C18_Witness ==
  /\ out.cmd = "repair" /\ out.result = "repaired" /\ out.count = 1
  /\ WorkerIDs(file.workers) = {"a"}
  /\ "a" \in LiveTitles(panes) /\ "b" \notin LiveTitles(panes)
  /\ Path(hardcodedWorktreeDir, "a") \in worktrees
  /\ Path(hardcodedWorktreeDir, "b") \notin worktrees

\* C19: a run of repair writes the registry file once, at its end: a run that
\* stops before its loops, or whose write fails, leaves the file as it was whatever
\* it did to panes and directories, and a run that succeeds leaves a file with the
\* records of every pane it could adopt.
C19_RepairSavesOnceAtEnd ==
  [][out'.cmd = "repair"
       => /\ out'.result \in {"no_session", "list_error", "save_error"} => file' = file
          /\ out'.result = "repaired"
               => /\ file'.exists
                  /\ WorkerIDs(file.workers) \subseteq WorkerIDs(file'.workers)
                  /\ (LiveTitles(panes) \cap LiveTitles(panes'))
                       \subseteq WorkerIDs(file'.workers)]_vars

\* A run of repair that adopted a pane and whose write failed: the pane's worktree
\* is made, the file has no record of it.
C19_Witness ==
  /\ out.cmd = "repair" /\ out.result = "save_error" /\ out.count >= 1
  /\ \E title \in LiveTitles(panes) :
       /\ title \notin WorkerIDs(file.workers)
       /\ adoptWorktreePath(loadConfig(file).WorktreePrefix, title) \in worktrees

\* C20: after a destroy that wrote the registry file, the file has no records and
\* no project path, and its init command and worktree prefix are those it had.
C20_DestroyClearsRegistry ==
  [][(out'.cmd = "destroy" /\ out'.result = "destroyed")
       => /\ file'.exists
          /\ loadConfig(file').Workers = <<>>
          /\ BoundPath(file') = ""
          /\ loadConfig(file').InitCommand = loadConfig(file).InitCommand
          /\ loadConfig(file').WorktreePrefix = loadConfig(file).WorktreePrefix]_vars

\* The session of a project with its own worktree prefix has been destroyed; the
\* directory of a worker it had is still on disk.
C20_Witness ==
  /\ out.cmd = "destroy" /\ out.result = "destroyed"
  /\ ~session /\ file.workers = <<>> /\ BoundPath(file) = ""
  /\ loadConfig(file).WorktreePrefix = CustomPrefix
  /\ WorktreePathOf(CustomPrefix, "a") \in worktrees

\* The invocation of process p ends with this step.
Finished(p) == loaded[p] # Idle /\ loaded'[p] = Idle

\* C21: of two invocations side by side, each writes the whole registry as it
\* loaded it, with its own change and nothing else: an add writes the records it
\* loaded followed by its new record, a remove the records it loaded without the
\* one it removes, whatever the file holds by then.
C21_LastWriterWins ==
  [][\A p \in Procs :
       Finished(p) =>
         LET mine == loaded[p].config.Workers IN
         /\ out'.result = "created"
              => /\ Len(file'.workers) = Len(mine) + 1
                 /\ SubSeq(file'.workers, 1, Len(mine)) = mine
                 /\ file'.workers[Len(mine) + 1].ID = loaded[p].id
         /\ out'.result = "removed"
              => file'.workers = RemoveAt(mine, IndexOfWorker(mine, loaded[p].id))
         /\ out'.result \notin {"created", "removed"} => file' = file]_vars

\* Both invocations are over: worker "a" has its pane and its worktree and no
\* record, the record of "b" is in the file.
C21_Witness ==
  /\ \A p \in Procs : loaded[p] = Idle
  /\ WorkerIDs(file.workers) = {"b"}
  /\ PaneTitled(panes, "a") /\ PaneTitled(panes, "b")
  /\ WorktreePathOf(loadConfig(file).WorktreePrefix, "a") \in worktrees

\* C22: a remove of an id the registry has no record of reports that the worker is
\* not found and leaves the registry file, the session, its panes and the worktree
\* directories as they were.
C22_RemoveUnknownId ==
  [][(out'.cmd = "remove" /\ out'.id \notin WorkerIDs(loadConfig(file).Workers))
       => /\ out'.result = "not_found"
          /\ UNCHANGED <<file, session, panes, active, nextPaneId, worktrees>>]_vars

\* A remove was refused for an unknown id while another worker is there, whole.
C22_Witness ==
  /\ out.cmd = "remove" /\ out.result = "not_found"
  /\ \E i \in 1..Len(file.workers) :
       /\ file.workers[i].ID # out.id
       /\ PaneTitled(panes, file.workers[i].ID)
       /\ file.workers[i].WorktreePath \in worktrees

\* The records of the sequence whose id is not the given one, in their order.
RECURSIVE Others(_, _)
Others(workers, id) ==
  IF workers = <<>> THEN <<>>
  ELSE (IF Head(workers).ID = id THEN <<>> ELSE <<Head(workers)>>)
       \o Others(Tail(workers), id)

\* C23: a remove of worker id leaves every other record as it was and in its
\* place among the others, and leaves every other record's pane, with its handle
\* and title, and every other record's worktree directory where they were.
C23_RemoveTouchesOneWorker ==
  [][(out'.cmd = "remove" /\ out'.result \in {"removed", "save_error"})
       => /\ Others(file'.workers, out'.id) = Others(file.workers, out'.id)
          /\ \A i \in 1..Len(file.workers) :
               LET w == file.workers[i] IN
               w.ID # out'.id
                 => /\ \A k \in 1..Len(panes) :
                         panes[k].id = w.PaneID
                           => \E m \in 1..Len(panes') : panes'[m] = panes[k]
                    /\ w.WorktreePath \in worktrees => w.WorktreePath \in worktrees']_vars

\* The record of the registry file a displayed row is about.
RecordOf(f, id) == f.workers[IndexOfWorker(f.workers, id)]

\* C24: list and status show a worker as active exactly when the session has a
\* pane with the handle of the worker's record, whatever the record's status field
\* holds, and leave the registry file as it was.
C24_DisplayedStatusIsProbed ==
  [][out'.cmd \in {"list", "status"}
       => /\ UNCHANGED file
          /\ \A k \in 1..Len(out'.report) :
               out'.report[k].Status = "active"
                 <=> (session /\ RecordOf(file, out'.report[k].ID).PaneID \in PaneIds(panes))]_vars

\* The records with no pane that check would list under their id.
MissingPanes(f, ps) == {i \in 1..Len(f.workers) : f.workers[i].ID \notin LiveTitles(ps)}

\* C25: a repair whose vertical split for the one record without a pane fails,
\* where a horizontal split would succeed, still gives the record a pane.
C25_RepairFallsBackToHorizontalSplit ==
  [][\A id \in Ids :
       (/\ out'.cmd = "repair"
        /\ out'.report = <<Inconsistency("split_v", id)>>
        /\ Cardinality(MissingPanes(file, panes)) = 1
        /\ CanSplit(panes))
         => /\ Len(panes') = Len(panes) + 1
            /\ PaneTitled(panes', id)]_vars

\* C26: a repair leaves every pane that was there before it with its handle and
\* its title, and the handle it stores in a record that had no pane is the handle
\* of a pane the run has created, which carries the record's id as title.
C26_RepairBindsNewPane ==
  [][(out'.cmd = "repair" /\ out'.result = "repaired")
       => /\ \A k \in 1..Len(panes) : \E m \in 1..Len(panes') : panes'[m] = panes[k]
          /\ \A i \in MissingPanes(file, panes) :
               /\ file'.workers[i].PaneID \notin PaneIds(panes)
               /\ \E m \in 1..Len(panes') :
                    panes'[m] = [id |-> file'.workers[i].PaneID,
                                 title |-> file.workers[i].ID]]_vars

\* C27: in a repair in which one call fails, every record whose own worktree call
\* did not fail has its worktree directory afterwards, the record whose pane
\* could not be made included.
C27_RepairContinuesPastFailure ==
  [][(out'.cmd = "repair" /\ out'.result = "repaired_with_errors")
       => \A i \in 1..Len(file.workers) :
            out'.report # <<Inconsistency("worktree", file.workers[i].ID)>>
              => file.workers[i].WorktreePath \in worktrees']_vars

\* What a step has done to the three sets: panes made, worktree directories made
\* for records that were in the file, records appended, directories removed.
Performed ==
  (Len(panes') - Len(panes))
  + Cardinality({i \in 1..Len(file.workers) :
                   file.workers[i].WorktreePath \in worktrees' \ worktrees})
  + (Len(file'.workers) - Len(file.workers))
  + Cardinality(worktrees \ worktrees')

\* C28: the number of repairs a repair reports is the number of corrective actions
\* it has carried out: panes made and worktrees made for records, panes adopted,
\* directories removed.
C28_RepairCountsWhatItDid ==
  [][(out'.cmd = "repair" /\ out'.result \in {"repaired", "repaired_with_errors"})
       => out'.count = Performed]_vars

\* C29: an add whose send-keys fails has written the record before, and leaves
\* the record, the pane titled with the id and bound to the record, and the
\* worktree directory in place.
C29_InitCommandFailureKeepsWorker ==
  [][(out'.cmd = "add" /\ out'.result = "created_init_failed")
       => /\ Whole(file', panes', worktrees', out'.id)
          /\ Len(file'.workers) = Len(file.workers) + 1
          /\ file'.workers[Len(file'.workers)].ID = out'.id
          /\ Len(panes') = Len(panes) + 1]_vars

\* The init command of the second worker could not be sent; both workers are whole.
C29_Witness ==
  /\ out.cmd = "add" /\ out.result = "created_init_failed"
  /\ Len(file.workers) = 2
  /\ \A id \in Ids : Whole(file, panes, worktrees, id)

SessionConfig(f) ==
  [InitCommand |-> loadConfig(f).InitCommand,
   WorktreePrefix |-> loadConfig(f).WorktreePrefix,
   ProjectPath |-> loadConfig(f).ProjectPath]

\* C30: every record of the registry file after a repair is either a record
\* appended for a pane that had none, or a record of the file before the repair
\* with at most its pane handle and ordinal changed; the init command, the
\* worktree prefix and the project path are those of before.
C30_RepairFrame ==
  [][out'.cmd = "repair"
       => /\ SessionConfig(file') = SessionConfig(file)
          /\ \A k \in 1..Len(file'.workers) :
               LET r == file'.workers[k] IN
               \/ r.ID \notin WorkerIDs(file.workers) /\ r.ID \in LiveTitles(panes)
               \/ \E j \in 1..Len(file.workers) :
                    [file.workers[j] EXCEPT !.PaneID = r.PaneID,
                                            !.PaneIndex = r.PaneIndex] = r]_vars

\* A repair has bound a record written by hand to a pane: the record has a handle,
\* and still the status and the creation time it was written with.
C30_Witness ==
  /\ out.cmd = "repair" /\ out.result = "repaired"
  /\ \E k \in 1..Len(file.workers) :
       /\ file.workers[k].PaneID # NoPane
       /\ file.workers[k].Status = "inactive"
       /\ file.workers[k].CreatedAt = ZeroTime

\* The record's pane handle names a live pane that carries the record's id.
HandleLive(ps, worker) ==
  \E i \in 1..Len(ps) : ps[i].id = worker.PaneID /\ ps[i].title = worker.ID

\* C31: check reports a finding for every record whose non-empty pane handle
\* is not the handle of a live pane titled with the record's id, also when
\* another live pane carries that title.
C31_StaleHandleReported ==
  Checked =>
    \A i \in 1..Len(file.workers) :
      LET w == file.workers[i] IN
      (w.PaneID # NoPane /\ ~HandleLive(panes, w))
        => \E k \in 1..Len(out.report) : out.report[k].WorkerID = w.ID

\* The add step reached git worktree add from the project directory of a live
\* session with room for one more pane and one more record.
AddReachedGit(id) ==
  /\ out'.cmd = "add" /\ out'.id = id
  /\ out'.result \notin {"in_worktree", "wrong_dir", "exists"}
  /\ session /\ CanSplit(panes)

\* The worktree of id is on disk at the configured path and has branch id
\* checked out; no branch was made or lost.
BoundToExistingBranch(id) ==
  LET path == Path(loadConfig(file).WorktreePrefix, id) IN
  /\ path \in worktrees'
  /\ [name |-> id, at |-> path] \in branches'
  /\ BranchNames(branches') = BranchNames(branches)

C33_RepairAfterUnsavedCreate ==
  [][(/\ out.cmd = "add" /\ out.result = "save_error"
      /\ out'.cmd = "repair" /\ out'.result = "repaired")
       => LET id == out.id
              path == WorktreePathFrom(out.cwd, loadConfig(file).WorktreePrefix, id)
              paneID == panes[active].id
          IN /\ \E i \in 1..Len(file'.workers) :
                  /\ file'.workers[i].ID = id
                  /\ file'.workers[i].PaneID = paneID
                  /\ file'.workers[i].WorktreePath = path
             /\ path \in worktrees'
             /\ \E k \in 1..Len(panes') : panes'[k].id = paneID /\ panes'[k].title = id
             /\ CheckReports(file', panes', worktrees') = {<<>>}]_vars

\* C34: no two records of the registry hold the same non-empty pane handle.
C34_HandlesAreUnique ==
  \A i, j \in 1..Len(file.workers) :
    (i # j /\ file.workers[i].PaneID # NoPane)
      => file.workers[i].PaneID # file.workers[j].PaneID

\* The records the step has added to the registry.
NewRecords == {w \in SeqToSet(file'.workers) : w.ID \notin WorkerIDs(file.workers)}

\* C35: every record create or repair adds to the registry has the path
\* <configured worktree prefix>/<id>, whatever the prefix.
C35_RecordPathUnderPrefix ==
  [][out'.cmd \in {"add", "repair"}
       => \A w \in NewRecords :
            w.WorktreePath = Path(loadConfig(file').WorktreePrefix, w.ID)]_vars

\* C36: the check that directly follows a create that succeeded reports nothing
\* about the id created, whatever id create took, the project's name included.
C36_CheckAfterCreateIsClean ==
  [][(/\ out.cmd = "add" /\ out.result = "created"
      /\ out'.cmd = "check" /\ out'.result = "done")
       => \A k \in 1..Len(out'.report) : out'.report[k].WorkerID # out.id]_vars

\* C37: without the session, check and repair report that it does not exist
\* and leave the registry, the panes and the worktrees as they are.
C37_NoSessionNoChange ==
  [][(~session /\ out'.cmd \in {"check", "repair"})
       => /\ out'.result = "no_session"
          /\ out'.report = <<>>
          /\ UNCHANGED <<file, session, panes, active, nextPaneId, worktrees>>]_vars

\* A repair was refused for want of the session while the registry held a
\* record and its worktree was on disk.
C37_Witness ==
  /\ out.cmd = "repair" /\ out.result = "no_session"
  /\ ~session
  /\ \E i \in 1..Len(file.workers) : file.workers[i].WorktreePath \in worktrees

\* C38: an init run while the session exists reports that it exists and makes
\* no session and no pane; the registry file (project path, init command,
\* worktree prefix, records) stays as it is, whatever --command and
\* --worktree-prefix say.
C38_InitOnExistingSession ==
  [][(session /\ out'.cmd = "init")
       => /\ out'.result = "exists"
          /\ UNCHANGED <<file, session, panes, active, nextPaneId, worktrees>>]_vars

\* An init given --command claude --worktree-prefix work found the session: the
\* registry holds a record and still has another command and another prefix.
C38_Witness ==
  /\ out.cmd = "init" /\ out.result = "exists"
  /\ file.workers # <<>>
  /\ loadConfig(file).InitCommand # CustomCommand
  /\ loadConfig(file).WorktreePrefix # CustomPrefix

====
